---- MODULE Spec2Model ----
(***************************************************************************)
(* strava-exporter: the cache merge (cache.py), the run of main()          *)
(* (main.py) over the cache file and the remote activity source, one call  *)
(* of the request operation (strava_api.py), and the record computation    *)
(* and maximum heart rate detection of the exporter                        *)
(* (markdown_exporter.py).                                                 *)
(*                                                                         *)
(* An activity is a record with the fields the merge and the detail loops  *)
(* read or write: id, start_date, _detailed and suffer_score (which stands *)
(* for the seven detail fields main() assigns together, main.py:187-193).  *)
(* A Python list of dicts is a sequence of records; a key that is absent   *)
(* (or None) is the value NoId / NoDate / NoScore, and _detailed absent is *)
(* FALSE, which is what activity.get("_detailed") tests.                   *)
(***************************************************************************)
EXTENDS Integers, Sequences, FiniteSets, TLC

VARIABLES
    pc,                 \* where the program stands
    run,                \* number of the current run of main()
    remote,             \* the listing the remote source currently serves
    cacheFile,          \* strava_cache.json on disk
    cached_activities,  \* main(): cache.get("activities", [])
    new_activities,     \* main(): the page fetched by the incremental update
    activities,         \* main(): the activity set of this run
    new_count,          \* main(): get_new_activities_count(...)
    i,                  \* the detail loops' enumerate() counter
    pending,            \* bulk loop: positions in activities still to detail
    requested,          \* ids passed to get_activity_details in this run
    obtained,           \* positions in activities detailed by this run
    nfail,              \* detail fetches that failed in this run
    out,                \* what the incremental update printed about new items
    branch,             \* which path this run took
    exitKind,           \* how this run ended
    prevExit,           \* how the previous run ended
    call,               \* one call of StravaClient._make_request
    arg,                \* the argument of the function under study
    ret                 \* what that function returned

vars == <<pc, run, remote, cacheFile, cached_activities, new_activities,
          activities, new_count, i, pending, requested, obtained, nfail,
          out, branch, exitKind, prevExit, call, arg, ret>>

-----------------------------------------------------------------------------
(* Bounds of the model *)

MaxId == 2          \* identifiers 1..MaxId (and 0, and none)
MaxTotal == 3       \* merge inputs: Len(cached) + Len(new) <= MaxTotal
MaxRemote == 2      \* length of the remote listing in the small universe
MaxRuns == 3        \* runs of main() in one behaviour
MaxFail == 1        \* failing detail fetches in one run
LongLen == 13       \* activities of the long-loop scenario
LongCached == 4     \* the one cached (and detailed) activity of that scenario

-----------------------------------------------------------------------------
(* Values *)

NoId == -1          \* activity.get("id") of an entry without "id": None
NoDate == <<>>      \* x.get("start_date", ""): the empty string
NoScore == 0        \* details.get("suffer_score") absent: None

Min(a, b) == IF a <= b THEN a ELSE b

\* A start_date is the string the source sends: here an instant formatted as
\* two decimal digits, most significant first ("09", "10", ...).
Iso(t) == <<t \div 10, t % 10>>

\* The instant a start_date string denotes (datetime.fromisoformat).
Instant(s) == s[1] * 10 + s[2]

\* Python's str "<": lexicographic, a proper prefix is smaller.
RECURSIVE StrLess(_, _)
StrLess(s, t) ==
    IF t = <<>> THEN FALSE
    ELSE IF s = <<>> THEN TRUE
    ELSE IF Head(s) # Head(t) THEN Head(s) < Head(t)
    ELSE StrLess(Tail(s), Tail(t))

\* "if activity_id:" -- None and 0 are falsy.
Truthy(id) == id # NoId /\ id # 0

Activity(id, date, det) ==
    [id |-> id, start_date |-> date, _detailed |-> det,
     suffer_score |-> IF det THEN 1 ELSE NoScore]

-----------------------------------------------------------------------------
(* cache.py *)

\* The entries that pass "if activity_id:".
Keep(s) == SelectSeq(s, LAMBDA a : Truthy(a.id))

\* The last entry of s with identifier id.
LastOf(s, id) ==
    s[CHOOSE k \in 1..Len(s) :
        /\ s[k].id = id
        /\ \A m \in 1..Len(s) : s[m].id = id => m <= k]

\* list(activities_dict.values()) after "activities_dict[activity_id] =
\* activity" for the entries of s in order: a dict keeps a key at the place of
\* its first insertion and holds the value assigned to it last.
DictValues(s) ==
    LET kept == Keep(s)
        firsts == SelectSeq([k \in 1..Len(kept) |-> k],
                            LAMBDA k : \A j \in 1..(k - 1) : kept[j].id # kept[k].id)
    IN  [p \in 1..Len(firsts) |-> LastOf(kept, kept[firsts[p]].id)]

\* The sort key of merge_activities.
SortKey(a) == a.start_date

\* list.sort(key=..., reverse=True): greater keys first, and entries with
\* equal keys in the order they had (the sort is stable).
SortDesc(s) ==
    LET Precedes(j, k) ==
            \/ StrLess(SortKey(s[k]), SortKey(s[j]))
            \/ /\ ~StrLess(SortKey(s[j]), SortKey(s[k]))
               /\ j < k
        Rank(k) == 1 + Cardinality({j \in 1..Len(s) : Precedes(j, k)})
    IN  [p \in 1..Len(s) |-> s[CHOOSE k \in 1..Len(s) : Rank(k) = p]]

\* Faulty variants of merge_activities: the new entries appended without a
\* shared dict, the sort left out, the cached entries left out.
merge_append(cached, new) == SortDesc(DictValues(cached) \o DictValues(new))

merge_unsorted(cached, new) == DictValues(cached \o new)

merge_new_only(cached, new) == SortDesc(DictValues(new))

\* Both loops fill the same dict, cached first; its values are sorted.
merge_activities(cached, new) == SortDesc(DictValues(cached \o new))

get_new_activities_count(cached, merged) == Len(merged) - Len(cached)

-----------------------------------------------------------------------------
(* The universe of the merge's inputs *)

Ids == {NoId} \cup (0..MaxId)
StartDates == {NoDate, Iso(9), Iso(10)}

\* Entries a listing of the source holds (the source never sends _detailed)
\* and entries a cache may hold: main() sets _detailed only after
\* get_activity_details(activity["id"]) answered, so on entries with an
\* identifier the source knows.
NewEntries == {Activity(id, d, FALSE) : id \in Ids, d \in StartDates}
CachedEntries ==
    NewEntries \cup {Activity(id, d, TRUE) : id \in 1..MaxId, d \in StartDates}

SeqsOfLen(S, n) == [1..n -> S]

-----------------------------------------------------------------------------
(* The state between runs *)

NoFile == [state |-> "missing", activities |-> <<>>]

\* main() has not assigned any of its locals.
NotStarted ==
    /\ run = 0
    /\ activities = <<>>
    /\ new_count = 0
    /\ i = 0
    /\ pending = <<>>
    /\ requested = <<>>
    /\ obtained = {}
    /\ nfail = 0
    /\ out = "none"
    /\ branch = "none"
    /\ exitKind = "none"
    /\ prevExit = "none"

\* No request is in progress and no function is under study.
NoCall == [pc |-> "none"]
NoArg == <<>>
NoRet == <<>>

Elsewhere ==
    /\ call = NoCall
    /\ arg = NoArg
    /\ ret = NoRet

-----------------------------------------------------------------------------
(* merge_activities and get_new_activities_count applied to any two inputs *)

InitMerge ==
    /\ pc = "merge_call"
    /\ \E n \in 0..MaxTotal : \E c \in 0..n :
          /\ cached_activities \in SeqsOfLen(CachedEntries, c)
          /\ new_activities \in SeqsOfLen(NewEntries, n - c)
    /\ remote = <<>>
    /\ cacheFile = NoFile
    /\ NotStarted
    /\ Elsewhere

MergeCall ==
    /\ pc = "merge_call"
    /\ activities' = merge_activities(cached_activities, new_activities)
    /\ new_count' = get_new_activities_count(
                        cached_activities,
                        merge_activities(cached_activities, new_activities))
    /\ pc' = "merge_ret"
    /\ UNCHANGED <<run, remote, cacheFile, cached_activities, new_activities,
                   i, pending, requested, obtained, nfail, out, branch,
                   exitKind, prevExit,
                   call, arg, ret>>

SpecMerge == InitMerge /\ [][MergeCall]_vars

-----------------------------------------------------------------------------
(* The cache file (cache.py) *)

\* save_cache(activities): the document written to strava_cache.json.
save_cache(acts) == [state |-> "ok", activities |-> acts]

\* The document load_cache returns for a missing file and from its except
\* clause: {"last_update": None, "activities": []}.
EmptyDocument == [raised |-> FALSE, last_update |-> "None", activities |-> <<>>]

\* The body of the try statement, open() and json.load(f): the document
\* save_cache wrote, or an exception when the file cannot be opened, decoded or
\* parsed (state "corrupt").
json_load(file) ==
    IF file.state = "ok"
    THEN [raised |-> FALSE, last_update |-> "saved",
          activities |-> file.activities]
    ELSE [raised |-> TRUE, last_update |-> "None", activities |-> <<>>]

\* A faulty variant of the clause below: the exception leaves load_cache.
except_Exception_none(result) == result

\* "except Exception as e:" of load_cache.
except_Exception(result) == IF result.raised THEN EmptyDocument ELSE result

\* load_cache(): the document of a readable file, else the empty default.
load_cache(file) ==
    IF file.state = "missing" THEN EmptyDocument
    ELSE except_Exception(json_load(file))

-----------------------------------------------------------------------------
(* The remote source (strava_api.py) *)

PerPage == 200

\* The source's activity with identifier id: identifiers are positive, and a
\* later identifier started later.
RemoteActivity(id) == Activity(id, Iso(8 + id), FALSE)

\* get_activities(per_page, page): one page of the listing.
get_activities(per_page, page) ==
    SubSeq(remote, (page - 1) * per_page + 1, Min(page * per_page, Len(remote)))

\* get_all_activities(): pages 1, 2, ... up to the first empty or short page.
RECURSIVE AllPages(_, _)
AllPages(all, page) ==
    IF get_activities(PerPage, page) = <<>> THEN all
    ELSE IF Len(get_activities(PerPage, page)) < PerPage
         THEN all \o get_activities(PerPage, page)
         ELSE AllPages(all \o get_activities(PerPage, page), page + 1)

get_all_activities == AllPages(<<>>, 1)

\* The detail fields main() copies from get_activity_details(id) into a.
WithDetails(a) == [a EXCEPT !._detailed = TRUE, !.suffer_score = 1]

-----------------------------------------------------------------------------
(* main() (main.py) *)

IncrementalSaveEvery == 10
BulkSaveEvery == 50
BulkErrorSaveEvery == 10

\* A faulty variant of the test below.
HasNew_nonzero(n) == n # 0

\* "if new_count > 0:"
HasNew(n) == n > 0

\* activities[:new_count], as the number of items the loop enumerates.
SliceLen(n, acts) == Min(n, Len(acts))

\* pending = [a for a in activities if not a.get("_detailed")], as positions.
PendingOf(acts) ==
    SelectSeq([k \in 1..Len(acts) |-> k], LAMBDA k : ~acts[k]._detailed)

\* A new process: get_athlete succeeds, the cache is loaded. An exception
\* leaving load_cache would reach main()'s "except Exception" and exit(1).
StartRun ==
    /\ pc = "idle"
    /\ run < MaxRuns
    /\ run' = run + 1
    /\ cached_activities' = load_cache(cacheFile).activities
    /\ pc' = IF load_cache(cacheFile).raised THEN "done"
             ELSE IF load_cache(cacheFile).activities # <<>> THEN "ask_update"
             ELSE "fetch_all"
    /\ exitKind' = IF load_cache(cacheFile).raised THEN "error" ELSE "running"
    /\ UNCHANGED <<remote, cacheFile, new_activities, activities, new_count, i,
                   pending, requested, obtained, nfail, out, branch, prevExit,
                   call, arg, ret>>

\* The process ends: its locals are gone, the file and the source remain.
Exit ==
    /\ pc = "done"
    /\ pc' = "idle"
    /\ prevExit' = exitKind
    /\ cached_activities' = <<>>
    /\ new_activities' = <<>>
    /\ activities' = <<>>
    /\ new_count' = 0
    /\ i' = 0
    /\ pending' = <<>>
    /\ requested' = <<>>
    /\ obtained' = {}
    /\ nfail' = 0
    /\ out' = "none"
    /\ branch' = "none"
    /\ exitKind' = "none"
    /\ UNCHANGED <<run, remote, cacheFile, call, arg, ret>>

\* "Deseja buscar novas atividades?" answered with anything but "s".
AnswerNo ==
    /\ pc = "ask_update"
    /\ activities' = cached_activities
    /\ branch' = "cached"
    /\ pc' = "report"
    /\ UNCHANGED <<run, remote, cacheFile, cached_activities, new_activities,
                   new_count, i, pending, requested, obtained, nfail, out,
                   exitKind, prevExit,
                   call, arg, ret>>

\* Answered "s": page 1 is fetched and merged, the new items are counted.
FetchNew ==
    /\ pc = "ask_update"
    /\ new_activities' = get_activities(PerPage, 1)
    /\ activities' = merge_activities(cached_activities, get_activities(PerPage, 1))
    /\ new_count' = get_new_activities_count(
                        cached_activities,
                        merge_activities(cached_activities, get_activities(PerPage, 1)))
    /\ branch' = "incremental"
    /\ i' = 0
    /\ IF HasNew(new_count')
       THEN pc' = "inc_loop" /\ out' = "found"
       ELSE pc' = "report" /\ out' = "none_new"
    /\ UNCHANGED <<run, remote, cacheFile, cached_activities, pending,
                   requested, obtained, nfail, exitKind, prevExit,
                   call, arg, ret>>

\* A listing request raises: "except Exception" prints and exits with 1.
FetchFails ==
    /\ pc \in {"ask_update", "fetch_all"}
    /\ pc' = "done"
    /\ exitKind' = "error"
    /\ UNCHANGED <<run, remote, cacheFile, cached_activities, new_activities,
                   activities, new_count, i, pending, requested, obtained,
                   nfail, out, branch, prevExit,
                   call, arg, ret>>

\* Incremental loop, an item that already has _detailed.
IncSkip ==
    /\ pc = "inc_loop"
    /\ i < SliceLen(new_count, activities)
    /\ activities[i + 1]._detailed
    /\ i' = i + 1
    /\ UNCHANGED <<pc, run, remote, cacheFile, cached_activities, new_activities,
                   activities, new_count, pending, requested, obtained, nfail,
                   out, branch, exitKind, prevExit,
                   call, arg, ret>>

\* Incremental loop, details fetched; the cache is saved when i % 10 == 0.
IncDetailOk ==
    /\ pc = "inc_loop"
    /\ i < SliceLen(new_count, activities)
    /\ ~activities[i + 1]._detailed
    /\ requested' = Append(requested, activities[i + 1].id)
    /\ activities' = [activities EXCEPT ![i + 1] = WithDetails(@)]
    /\ obtained' = obtained \cup {i + 1}
    /\ i' = i + 1
    /\ cacheFile' = IF (i + 1) % IncrementalSaveEvery = 0
                    THEN save_cache(activities')
                    ELSE cacheFile
    /\ UNCHANGED <<pc, run, remote, cached_activities, new_activities,
                   new_count, pending, nfail, out, branch, exitKind, prevExit,
                   call, arg, ret>>

\* Incremental loop, the detail request raises: the cache is saved.
IncDetailFails ==
    /\ pc = "inc_loop"
    /\ i < SliceLen(new_count, activities)
    /\ ~activities[i + 1]._detailed
    /\ nfail < MaxFail
    /\ nfail' = nfail + 1
    /\ requested' = Append(requested, activities[i + 1].id)
    /\ cacheFile' = save_cache(activities)
    /\ i' = i + 1
    /\ UNCHANGED <<pc, run, remote, cached_activities, new_activities,
                   activities, new_count, pending, obtained, out, branch,
                   exitKind, prevExit,
                   call, arg, ret>>

\* Incremental loop, Ctrl+C while the details are requested: save, return.
IncInterrupt ==
    /\ pc = "inc_loop"
    /\ i < SliceLen(new_count, activities)
    /\ ~activities[i + 1]._detailed
    /\ requested' = Append(requested, activities[i + 1].id)
    /\ cacheFile' = save_cache(activities)
    /\ pc' = "done"
    /\ exitKind' = "interrupted"
    /\ UNCHANGED <<run, remote, cached_activities, new_activities, activities,
                   new_count, i, pending, obtained, nfail, out, branch, prevExit,
                   call, arg, ret>>

\* Incremental loop, Ctrl+C outside the try statement (the for header at
\* main.py:180, the _detailed test at 181, the "except Exception" handler at
\* 207-210), taken here at the for header: no clause catches KeyboardInterrupt
\* there, nor does "except Exception" at main.py:335; the process dies with
\* the traceback and nothing is saved.
IncInterruptUncaught ==
    /\ pc = "inc_loop"
    /\ i < SliceLen(new_count, activities)
    /\ pc' = "done"
    /\ exitKind' = "uncaught"
    /\ UNCHANGED <<run, remote, cacheFile, cached_activities, new_activities,
                   activities, new_count, i, pending, requested, obtained,
                   nfail, out, branch, prevExit,
                   call, arg, ret>>

\* Incremental loop exhausted: save_cache(activities), on to the reports.
IncLoopEnd ==
    /\ pc = "inc_loop"
    /\ i = SliceLen(new_count, activities)
    /\ cacheFile' = save_cache(activities)
    /\ pc' = "report"
    /\ UNCHANGED <<run, remote, cached_activities, new_activities, activities,
                   new_count, i, pending, requested, obtained, nfail, out,
                   branch, exitKind, prevExit,
                   call, arg, ret>>

\* No cache: every activity is fetched.
FetchAll ==
    /\ pc = "fetch_all"
    /\ activities' = get_all_activities
    /\ branch' = "bulk"
    /\ pc' = "ask_details"
    /\ UNCHANGED <<run, remote, cacheFile, cached_activities, new_activities,
                   new_count, i, pending, requested, obtained, nfail, out,
                   exitKind, prevExit,
                   call, arg, ret>>

\* Details declined: the cache is saved; without activities main() returns.
AnswerNoDetails ==
    /\ pc = "ask_details"
    /\ cacheFile' = save_cache(activities)
    /\ IF activities = <<>>
       THEN pc' = "done" /\ exitKind' = "normal"
       ELSE pc' = "report" /\ exitKind' = exitKind
    /\ UNCHANGED <<run, remote, cached_activities, new_activities, activities,
                   new_count, i, pending, requested, obtained, nfail, out,
                   branch, prevExit,
                   call, arg, ret>>

\* Details wanted: the pending list is built.
AnswerYesDetails ==
    /\ pc = "ask_details"
    /\ pending' = PendingOf(activities)
    /\ i' = 0
    /\ pc' = "bulk_loop"
    /\ UNCHANGED <<run, remote, cacheFile, cached_activities, new_activities,
                   activities, new_count, requested, obtained, nfail, out,
                   branch, exitKind, prevExit,
                   call, arg, ret>>

\* Bulk loop, details fetched; the cache is saved when i % 50 == 0.
BulkDetailOk ==
    /\ pc = "bulk_loop"
    /\ i < Len(pending)
    /\ requested' = Append(requested, activities[pending[i + 1]].id)
    /\ activities' = [activities EXCEPT ![pending[i + 1]] = WithDetails(@)]
    /\ obtained' = obtained \cup {pending[i + 1]}
    /\ i' = i + 1
    /\ cacheFile' = IF (i + 1) % BulkSaveEvery = 0
                    THEN save_cache(activities')
                    ELSE cacheFile
    /\ UNCHANGED <<pc, run, remote, cached_activities, new_activities,
                   new_count, pending, nfail, out, branch, exitKind, prevExit,
                   call, arg, ret>>

\* Bulk loop, the detail request raises: saved only when i % 10 == 0.
BulkDetailFails ==
    /\ pc = "bulk_loop"
    /\ i < Len(pending)
    /\ nfail < MaxFail
    /\ nfail' = nfail + 1
    /\ requested' = Append(requested, activities[pending[i + 1]].id)
    /\ cacheFile' = IF (i + 1) % BulkErrorSaveEvery = 0
                    THEN save_cache(activities)
                    ELSE cacheFile
    /\ i' = i + 1
    /\ UNCHANGED <<pc, run, remote, cached_activities, new_activities,
                   activities, new_count, pending, obtained, out, branch,
                   exitKind, prevExit,
                   call, arg, ret>>

\* Bulk loop, Ctrl+C while the details are requested: save, return.
BulkInterrupt ==
    /\ pc = "bulk_loop"
    /\ i < Len(pending)
    /\ requested' = Append(requested, activities[pending[i + 1]].id)
    /\ cacheFile' = save_cache(activities)
    /\ pc' = "done"
    /\ exitKind' = "interrupted"
    /\ UNCHANGED <<run, remote, cached_activities, new_activities, activities,
                   new_count, i, pending, obtained, nfail, out, branch, prevExit,
                   call, arg, ret>>

\* Bulk loop, Ctrl+C outside the try statement (the for header at
\* main.py:240, the "except Exception" handler at 266-270), taken here at the
\* for header: the KeyboardInterrupt leaves main() uncaught, nothing is saved.
BulkInterruptUncaught ==
    /\ pc = "bulk_loop"
    /\ i < Len(pending)
    /\ pc' = "done"
    /\ exitKind' = "uncaught"
    /\ UNCHANGED <<run, remote, cacheFile, cached_activities, new_activities,
                   activities, new_count, i, pending, requested, obtained,
                   nfail, out, branch, prevExit,
                   call, arg, ret>>

\* Bulk loop exhausted: save_cache(activities) (main.py:275).
BulkLoopEnd ==
    /\ pc = "bulk_loop"
    /\ i = Len(pending)
    /\ cacheFile' = save_cache(activities)
    /\ IF activities = <<>>
       THEN pc' = "done" /\ exitKind' = "normal"
       ELSE pc' = "report" /\ exitKind' = exitKind
    /\ UNCHANGED <<run, remote, cached_activities, new_activities, activities,
                   new_count, i, pending, requested, obtained, nfail, out,
                   branch, prevExit,
                   call, arg, ret>>

\* The reports are written; when the export reports a newly detected maximum
\* heart rate (hr) the cache is saved once more.
Report ==
    /\ pc = "report"
    /\ \E hr \in BOOLEAN :
          cacheFile' = IF hr /\ activities # <<>>
                       THEN save_cache(activities)
                       ELSE cacheFile
    /\ pc' = "done"
    /\ exitKind' = "normal"
    /\ UNCHANGED <<run, remote, cached_activities, new_activities, activities,
                   new_count, i, pending, requested, obtained, nfail, out,
                   branch, prevExit,
                   call, arg, ret>>

-----------------------------------------------------------------------------
(* The environment between two runs *)

RemoteActivities == {RemoteActivity(id) : id \in 1..MaxId}
Listings == UNION {SeqsOfLen(RemoteActivities, n) : n \in 0..MaxRemote}

\* Activities are created, deleted or listed again upstream.
UpstreamChange ==
    /\ pc = "idle"
    /\ run >= 1
    /\ run < MaxRuns
    /\ remote' \in Listings \ {remote}
    /\ UNCHANGED <<pc, run, cacheFile, cached_activities, new_activities,
                   activities, new_count, i, pending, requested, obtained,
                   nfail, out, branch, exitKind, prevExit,
                   call, arg, ret>>

Init ==
    /\ pc = "idle"
    /\ remote \in Listings
    /\ cacheFile \in {NoFile, [state |-> "corrupt", activities |-> <<>>]}
    /\ cached_activities = <<>>
    /\ new_activities = <<>>
    /\ NotStarted
    /\ Elsewhere

Next ==
    \/ StartRun
    \/ Exit
    \/ AnswerNo
    \/ FetchNew
    \/ FetchFails
    \/ IncSkip
    \/ IncDetailOk
    \/ IncDetailFails
    \/ IncInterrupt
    \/ IncInterruptUncaught
    \/ IncLoopEnd
    \/ FetchAll
    \/ AnswerNoDetails
    \/ AnswerYesDetails
    \/ BulkDetailOk
    \/ BulkDetailFails
    \/ BulkInterrupt
    \/ BulkInterruptUncaught
    \/ BulkLoopEnd
    \/ Report
    \/ UpstreamChange

Spec == Init /\ [][Next]_vars

\* A long incremental update: the cache holds one detailed activity that is
\* gone upstream, the source lists LongLen - 1 others around it; and the same
\* listing met without a cache.
LongListing ==
    [k \in 1..(LongLen - 1) |->
        RemoteActivity(IF LongLen + 1 - k > LongCached THEN LongLen + 1 - k
                       ELSE LongLen - k)]

InitLong ==
    /\ pc = "idle"
    /\ remote = LongListing
    /\ cacheFile \in {NoFile, save_cache(<<WithDetails(RemoteActivity(LongCached))>>)}
    /\ cached_activities = <<>>
    /\ new_activities = <<>>
    /\ NotStarted
    /\ Elsewhere

SpecLong == InitLong /\ [][Next]_vars

-----------------------------------------------------------------------------
(* StravaClient._make_request (strava_api.py): one call, step by step *)

\* The variables of main(), which a single request leaves alone.
mainVars == <<pc, run, remote, cacheFile, cached_activities, new_activities,
              activities, new_count, i, pending, requested, obtained, nfail,
              out, branch, exitKind, prevExit>>

max_retries == 5

OK == 200
Unauthorized == 401
RateLimited == 429
ServerError == 500

\* The status codes the server may answer with.
Statuses == {OK, Unauthorized, RateLimited, ServerError}

\* "for attempt in range(max_retries)" is about to send; attempt counts from 0.
\* sent: requests sent to the endpoint; refreshes: calls of
\* refresh_access_token; waits: calls of time.sleep; log: the status codes
\* received, in order; result: how the call ended.
NewCall(has_refresh) ==
    [pc |-> "send", attempt |-> 0, has_refresh |-> has_refresh, status |-> 0,
     sent |-> 0, refreshes |-> 0, waits |-> 0, log |-> <<>>, result |-> "none"]

\* A faulty variant of the test below: the last attempt waits once more.
CanRetry_always(attempt) == attempt < max_retries

\* "if attempt < max_retries - 1:"
CanRetry(attempt) == attempt < max_retries - 1

\* requests.request(...) at the head of the loop body answers with a status.
SendRequest ==
    /\ call.pc = "send"
    /\ call.attempt < max_retries
    /\ \E st \in Statuses :
          call' = [call EXCEPT !.pc = "auth", !.status = st,
                               !.sent = @ + 1, !.log = Append(@, st)]
    /\ UNCHANGED <<mainVars, arg, ret>>

\* requests.request(...) raises (no connection): the exception leaves the call.
SendRaises ==
    /\ call.pc = "send"
    /\ call.attempt < max_retries
    /\ call' = [call EXCEPT !.pc = "done", !.result = "error"]
    /\ UNCHANGED <<mainVars, arg, ret>>

\* 401 with a refresh token: refresh_access_token(), then the request is sent
\* again with the new access token; its response replaces the first.
RefreshAndRetry ==
    /\ call.pc = "auth"
    /\ call.status = Unauthorized
    /\ call.has_refresh
    /\ \E st \in Statuses :
          call' = [call EXCEPT !.pc = "limit", !.status = st,
                               !.refreshes = @ + 1, !.sent = @ + 1,
                               !.log = Append(@, st)]
    /\ UNCHANGED <<mainVars, arg, ret>>

\* 401 with a refresh token, and refresh_access_token() raises: re-raised.
RefreshFails ==
    /\ call.pc = "auth"
    /\ call.status = Unauthorized
    /\ call.has_refresh
    /\ call' = [call EXCEPT !.pc = "done", !.result = "error",
                            !.refreshes = @ + 1]
    /\ UNCHANGED <<mainVars, arg, ret>>

\* Any other response, or no refresh token: on to the 429 test.
NoRefresh ==
    /\ call.pc = "auth"
    /\ ~(call.status = Unauthorized /\ call.has_refresh)
    /\ call' = [call EXCEPT !.pc = "limit"]
    /\ UNCHANGED <<mainVars, arg, ret>>

\* 429 before the last attempt: time.sleep(wait_time), continue.
WaitAndRetry ==
    /\ call.pc = "limit"
    /\ call.status = RateLimited
    /\ CanRetry(call.attempt)
    /\ call' = [call EXCEPT !.pc = "send", !.attempt = @ + 1, !.waits = @ + 1]
    /\ UNCHANGED <<mainVars, arg, ret>>

\* 429 on the last attempt: HTTPError("429 Rate Limit Exceeded ...").
RateLimitExceeded ==
    /\ call.pc = "limit"
    /\ call.status = RateLimited
    /\ ~CanRetry(call.attempt)
    /\ call' = [call EXCEPT !.pc = "done", !.result = "error"]
    /\ UNCHANGED <<mainVars, arg, ret>>

\* response.raise_for_status() passes: the response is returned.
ReturnResponse ==
    /\ call.pc = "limit"
    /\ call.status = OK
    /\ call' = [call EXCEPT !.pc = "done", !.result = "response"]
    /\ UNCHANGED <<mainVars, arg, ret>>

\* response.raise_for_status() raises for any other status.
RaiseForStatus ==
    /\ call.pc = "limit"
    /\ call.status \notin {OK, RateLimited}
    /\ call' = [call EXCEPT !.pc = "done", !.result = "error"]
    /\ UNCHANGED <<mainVars, arg, ret>>

\* A call with an access token, with or without a refresh token.
InitRequest ==
    /\ pc = "request"
    /\ call \in {NewCall(r) : r \in BOOLEAN}
    /\ arg = NoArg
    /\ ret = NoRet
    /\ remote = <<>>
    /\ cacheFile = NoFile
    /\ cached_activities = <<>>
    /\ new_activities = <<>>
    /\ NotStarted

NextRequest ==
    \/ SendRequest
    \/ SendRaises
    \/ RefreshAndRetry
    \/ RefreshFails
    \/ NoRefresh
    \/ WaitAndRetry
    \/ RateLimitExceeded
    \/ ReturnResponse
    \/ RaiseForStatus

SpecRequest == InitRequest /\ [][NextRequest]_vars

\* The call is one thread of straight-line code: a step that can be taken is
\* taken (the server answers, the sleep ends).
SpecRequestFair == SpecRequest /\ WF_vars(NextRequest)

-----------------------------------------------------------------------------
(* calculate_records (markdown_exporter.py) *)

MaxActs == 3        \* activities in one call of calculate_records

\* "activity": None in a record, and the holder otherwise: the position of
\* the activity in the list (the dict object itself in the code).
None == 0

\* A time per distance, seconds * per / meters, kept exact: the pace in
\* seconds per km has per = 1000, the time over a target distance has
\* per = target.  The code computes both in floating point.
Scaled(seconds, meters, per) == [num |-> seconds, den |-> meters, per |-> per]

\* float('inf')
Inf == [num |-> 1, den |-> 0, per |-> 1]

\* q1 < q2 for two quantities with the same per (or q2 infinite).
Less(q1, q2) == q1.num * q2.den < q2.num * q1.den

\* q > limit and q >= limit for a finite q and a number.
Above(q, limit) == q.num * q.per > limit * q.den

AtLeast(q, limit) == q.num * q.per >= limit * q.den

\* calculate_pace_seconds(meters, seconds)
calculate_pace_seconds(meters, seconds) ==
    IF meters = 0 THEN Inf ELSE Scaled(seconds, meters, 1000)

\* distance_targets; a sport without an entry has no target.
distance_targets(sport_type) ==
    CASE sport_type = "Ride" -> {1000, 5000, 10000, 20000}
      [] sport_type = "Run"  -> {1000, 5000, 10000}
      [] sport_type = "Walk" -> {1000, 3000, 5000}
      [] OTHER -> {}

\* max_pace_limits.get(sport_type, 1800)
max_pace(sport_type) ==
    CASE sport_type = "Ride" -> 900
      [] sport_type = "Run"  -> 1200
      [] sport_type = "Walk" -> 1200
      [] OTHER -> 1800

\* A faulty variant of min_times: no threshold.
min_times_none(target_dist) == 0

\* min_times.get(target_dist, 0)
min_times(target_dist) ==
    CASE target_dist = 1000  -> 120
      [] target_dist = 3000  -> 420
      [] target_dist = 5000  -> 720
      [] target_dist = 10000 -> 1500
      [] target_dist = 20000 -> 3000
      [] OTHER -> 0

\* A faulty variant of is_valid_pace: no ceiling.
is_valid_pace_always(activity) == TRUE

\* is_valid_pace after main.py's test: false only for an activity with
\* distance and moving time whose pace is above the sport's ceiling.
is_valid_pace(activity) ==
    ~(/\ activity.distance > 0
      /\ activity.moving_time > 0
      /\ Above(calculate_pace_seconds(activity.distance, activity.moving_time),
               max_pace(activity.sport_type)))

\* records_by_type[sport_type] as created for a sport seen for the first time
\* (the four pace-gated records and the best times; the speed, heart-rate and
\* power records do not depend on them and are left out).
NewRecords(sport_type) ==
    [max_distance  |-> [value |-> 0, activity |-> None],
     max_time      |-> [value |-> 0, activity |-> None],
     max_elevation |-> [value |-> 0, activity |-> None],
     best_pace     |-> [value |-> Inf, activity |-> None],
     best_time     |-> [t \in distance_targets(sport_type) |->
                           [value |-> Inf, activity |-> None]]]

\* The body of the loop for the activity at position k, on its sport's records.
Scan(records, activity, k) ==
    LET valid == is_valid_pace(activity)
        pace == calculate_pace_seconds(activity.distance, activity.moving_time)
        estimated_time(t) == Scaled(activity.moving_time, activity.distance, t)
    IN  [max_distance |->
            IF valid /\ activity.distance > records.max_distance.value
            THEN [value |-> activity.distance, activity |-> k]
            ELSE records.max_distance,
         max_time |->
            IF valid /\ activity.moving_time > records.max_time.value
            THEN [value |-> activity.moving_time, activity |-> k]
            ELSE records.max_time,
         max_elevation |->
            IF valid /\ activity.total_elevation_gain > records.max_elevation.value
            THEN [value |-> activity.total_elevation_gain, activity |-> k]
            ELSE records.max_elevation,
         best_pace |->
            IF valid /\ activity.distance > 0 /\ Less(pace, records.best_pace.value)
            THEN [value |-> pace, activity |-> k]
            ELSE records.best_pace,
         best_time |->
            [t \in DOMAIN records.best_time |->
                IF /\ valid
                   /\ activity.distance > 0
                   /\ activity.moving_time > 0
                   /\ activity.distance >= t
                   /\ AtLeast(estimated_time(t), min_times(t))
                   /\ Less(estimated_time(t), records.best_time[t].value)
                THEN [value |-> estimated_time(t), activity |-> k]
                ELSE records.best_time[t]]]

\* records_by_type after the first k activities.
RECURSIVE RecordsAfter(_, _)
RecordsAfter(acts, k) ==
    IF k = 0 THEN <<>>
    ELSE LET before == RecordsAfter(acts, k - 1)
             sport == acts[k].sport_type
             records == IF sport \in DOMAIN before THEN before[sport]
                        ELSE NewRecords(sport)
         IN  [t \in DOMAIN before \cup {sport} |->
                 IF t = sport THEN Scan(records, acts[k], k) ELSE before[t]]

calculate_records(acts) == RecordsAfter(acts, Len(acts))

\* The activities the function is applied to: per sport type, distances in
\* m, moving times in s and elevation gains in m that fall on both sides of
\* each test of the loop.
Input(sport_type, distance, moving_time, elevation) ==
    [sport_type |-> sport_type, distance |-> distance,
     moving_time |-> moving_time, total_elevation_gain |-> elevation]

RecordInputs ==
    {Input("Ride", 10000, 1800, 100),    \* 180 s/km
     Input("Ride", 20000, 3600, 200),    \* 180 s/km
     Input("Ride", 5000, 900, 50),       \* 180 s/km
     Input("Ride", 20000, 60, 0),        \* 3 s/km
     Input("Ride", 2000, 1800, 300),     \* 900 s/km, the ceiling of Ride
     Input("Ride", 2000, 1802, 400),     \* 901 s/km
     Input("Ride", 0, 600, 0),           \* no distance
     Input("Run", 10000, 1800, 100),     \* 180 s/km
     Input("Run", 20000, 60, 0),         \* 3 s/km
     Input("Run", 2000, 2400, 300),      \* 1200 s/km, the ceiling of Run
     Input("Run", 2000, 2402, 400),      \* 1201 s/km
     Input("Walk", 3000, 420, 0),        \* 3 km in 420 s, 1 km in 140 s
     Input("Walk", 5000, 900, 50),       \* 180 s/km
     Input("Walk", 2000, 2402, 400),     \* 1201 s/km
     Input("Walk", 0, 600, 0),           \* no distance
     Input("Hike", 10000, 1800, 100),    \* 180 s/km
     Input("Hike", 2000, 3600, 300),     \* 1800 s/km, the ceiling of the rest
     Input("Hike", 2000, 3602, 400),     \* 1801 s/km
     Input("Hike", 0, 600, 0)}           \* no distance

InitRecords ==
    /\ pc = "records_call"
    /\ \E n \in 1..MaxActs : arg \in SeqsOfLen(RecordInputs, n)
    /\ ret = NoRet
    /\ call = NoCall
    /\ remote = <<>>
    /\ cacheFile = NoFile
    /\ cached_activities = <<>>
    /\ new_activities = <<>>
    /\ NotStarted

RecordsCall ==
    /\ pc = "records_call"
    /\ ret' = calculate_records(arg)
    /\ pc' = "records_ret"
    /\ UNCHANGED <<run, remote, cacheFile, cached_activities, new_activities,
                   activities, new_count, i, pending, requested, obtained,
                   nfail, out, branch, exitKind, prevExit, call, arg>>

SpecRecords == InitRecords /\ [][RecordsCall]_vars

-----------------------------------------------------------------------------
(* Maximum heart rate detection in activities_to_markdown_by_year
   (markdown_exporter.py:665-773) *)

MaxHigh == 10       \* observations above 200 bpm in one period

\* An activity as the detection reads it: max_heartrate (0 when absent) and
\* whether its start_date is within the last 180 days.
Observation(max_heartrate, recent) ==
    [max_heartrate |-> max_heartrate, recent |-> recent]

\* [a.get("max_heartrate", 0) for a in acts if a.get("max_heartrate", 0) > 0]
max_hrs(acts) ==
    LET with == SelectSeq(acts, LAMBDA a : a.max_heartrate > 0)
    IN  [k \in 1..Len(with) |-> with[k].max_heartrate]

\* sorted(hrs): ascending.
sorted(hrs) ==
    LET Rank(k) == 1 + Cardinality({j \in 1..Len(hrs) :
                        hrs[j] < hrs[k] \/ (hrs[j] = hrs[k] /\ j < k)})
    IN  [p \in 1..Len(hrs) |-> hrs[CHOOSE k \in 1..Len(hrs) : Rank(k) = p]]

\* hrs.sort(reverse=True): descending.
sorted_reverse(hrs) ==
    LET Rank(k) == 1 + Cardinality({j \in 1..Len(hrs) :
                        hrs[j] > hrs[k] \/ (hrs[j] = hrs[k] /\ j < k)})
    IN  [p \in 1..Len(hrs) |-> hrs[CHOOSE k \in 1..Len(hrs) : Rank(k) = p]]

\* max(hrs) of a non-empty list.
max(hrs) == CHOOSE v \in {hrs[k] : k \in 1..Len(hrs)} :
                \A k \in 1..Len(hrs) : hrs[k] <= v

\* int(len(hrs) * 0.95)
percentile_95_idx(n) == (n * 95) \div 100

TopCount == 10
Implausible == 200
DefaultMaxHr == 180

\* [hr for hr in hrs if hr <= 200]
realistic(hrs) == SelectSeq(hrs, LAMBDA hr : hr <= Implausible)

\* The branch taken when recent_max_hrs is not empty (lines 681-726).
detect_recent(recent_max_hrs) ==
    LET ordered == sorted_reverse(recent_max_hrs)
        top_hrs == SubSeq(ordered, 1, Min(TopCount, Len(ordered)))
        max_detected == max(top_hrs)
    IN  IF max_detected > Implausible
        THEN IF realistic(top_hrs) = <<>>
             THEN sorted(recent_max_hrs)[percentile_95_idx(Len(recent_max_hrs)) + 1]
             ELSE max(realistic(top_hrs))
        ELSE ordered[1]

\* The fallback on the full history when all_max_hrs is not empty (734-768).
detect_history(all_max_hrs) ==
    LET ordered == sorted_reverse(all_max_hrs)
        max_detected == ordered[1]
    IN  IF max_detected > Implausible
        THEN IF realistic(all_max_hrs) # <<>>
             THEN max(sorted(realistic(all_max_hrs)))
             ELSE sorted(all_max_hrs)[percentile_95_idx(Len(all_max_hrs)) + 1]
        ELSE ordered[1]

\* Lines 661-773: the ceiling used for the reports (user_max_hr) and the
\* detected value returned to main() (None when nothing was detected).
detect_max_hr(acts, user_max_hr) ==
    LET recent_max_hrs == max_hrs(SelectSeq(acts, LAMBDA a : a.recent))
        all_max_hrs == max_hrs(acts)
    IN  IF user_max_hr # None
        THEN [user_max_hr |-> user_max_hr, detected_max_hr |-> None]
        ELSE IF recent_max_hrs # <<>>
        THEN [user_max_hr |-> detect_recent(recent_max_hrs),
              detected_max_hr |-> detect_recent(recent_max_hrs)]
        ELSE IF all_max_hrs # <<>>
        THEN [user_max_hr |-> detect_history(all_max_hrs),
              detected_max_hr |-> detect_history(all_max_hrs)]
        ELSE [user_max_hr |-> DefaultMaxHr, detected_max_hr |-> None]

\* The activity sets of the detection: in each period (recent, older) some of
\* the plausible values, up to MaxHigh values above 200 bpm, and possibly an
\* activity without heart-rate data.
LowValues == {165, 170, 172}
HighValue == 255
ConfiguredMaxHr == 185

\* The values of a set, ascending, as a list.
Listed(S) ==
    LET Rank(v) == 1 + Cardinality({w \in S : w < v})
    IN  [p \in 1..Cardinality(S) |-> CHOOSE v \in S : Rank(v) = p]

Period(lows, highs, blank, recent) ==
    [k \in 1..Cardinality(lows) |-> Observation(Listed(lows)[k], recent)]
    \o [k \in 1..highs |-> Observation(HighValue, recent)]
    \o [k \in 1..(IF blank THEN 1 ELSE 0) |-> Observation(0, recent)]

InitDetect ==
    /\ pc = "detect_call"
    /\ \E lr \in SUBSET LowValues, hr \in 0..MaxHigh, br \in BOOLEAN,
          lo \in SUBSET LowValues, ho \in 0..MaxHigh, user \in {None, ConfiguredMaxHr} :
          arg = [activities |-> Period(lo, ho, FALSE, FALSE) \o Period(lr, hr, br, TRUE),
                 user_max_hr |-> user]
    /\ ret = NoRet
    /\ call = NoCall
    /\ remote = <<>>
    /\ cacheFile = NoFile
    /\ cached_activities = <<>>
    /\ new_activities = <<>>
    /\ NotStarted

DetectCall ==
    /\ pc = "detect_call"
    /\ ret' = detect_max_hr(arg.activities, arg.user_max_hr)
    /\ pc' = "detect_ret"
    /\ UNCHANGED <<run, remote, cacheFile, cached_activities, new_activities,
                   activities, new_count, i, pending, requested, obtained,
                   nfail, out, branch, exitKind, prevExit, call, arg>>

SpecDetect == InitDetect /\ [][DetectCall]_vars

-----------------------------------------------------------------------------
(* Year grouping (markdown_exporter.py:627-641, 775-781) *)

\* A start_date as the characters of the string, e.g. those of
\* "2023-06-01T10:00:00Z".
DigitChars == <<"0", "1", "2", "3", "4", "5", "6", "7", "8", "9">>

\* int() of one decimal digit.
DigitValue(c) == (CHOOSE n \in 1..10 : DigitChars[n] = c) - 1

\* The four digits a year is written with.
Str4(y) ==
    <<DigitChars[(y \div 1000) + 1], DigitChars[((y \div 100) % 10) + 1],
      DigitChars[((y \div 10) % 10) + 1], DigitChars[(y % 10) + 1]>>

\* datetime.fromisoformat(date_str.replace("Z", "+00:00")).year: the year
\* field of the string, in the string's own UTC offset.
fromisoformat_year(date_str) ==
    1000 * DigitValue(date_str[1]) + 100 * DigitValue(date_str[2])
    + 10 * DigitValue(date_str[3]) + DigitValue(date_str[4])

\* get_year_from_activity: 0 for a missing or empty start_date.
get_year_from_activity(activity) ==
    IF activity.start_date # <<>> THEN fromisoformat_year(activity.start_date)
    ELSE 0

\* A faulty variant of the test below: every activity is grouped.
InYearGroup_any(year) == TRUE

\* "if year > 0:"
InYearGroup(year) == year > 0

\* activities_by_year after the loop: per year the activities appended, in
\* the order of the list (as positions in the list).
activities_by_year(acts) ==
    LET grouped == {k \in 1..Len(acts) : InYearGroup(get_year_from_activity(acts[k]))}
        years == {get_year_from_activity(acts[k]) : k \in grouped}
    IN  [y \in years |->
            SelectSeq([k \in 1..Len(acts) |-> k],
                      LAMBDA k : k \in grouped /\ get_year_from_activity(acts[k]) = y)]

\* The start dates of the grouped activities: none, mid-year, the last second
\* of a year and the first of the next.
MidYear == <<"-", "0", "6", "-", "0", "1", "T", "1", "0", ":", "0", "0", ":", "0", "0", "Z">>
YearEnd == <<"-", "1", "2", "-", "3", "1", "T", "2", "3", ":", "5", "9", ":", "5", "9", "Z">>
YearStart == <<"-", "0", "1", "-", "0", "1", "T", "0", "0", ":", "0", "0", ":", "0", "0", "Z">>


InitGroup ==
    /\ pc = "group_call"
    /\ \E n \in 1..MaxActs :
          arg \in SeqsOfLen({[start_date |-> d] :
                                 d \in {<<>>, Str4(2022) \o MidYear,
                                        Str4(2023) \o MidYear,
                                        Str4(2023) \o YearEnd,
                                        Str4(2024) \o YearStart}}, n)
    /\ ret = NoRet
    /\ call = NoCall
    /\ remote = <<>>
    /\ cacheFile = NoFile
    /\ cached_activities = <<>>
    /\ new_activities = <<>>
    /\ NotStarted

GroupCall ==
    /\ pc = "group_call"
    /\ ret' = activities_by_year(arg)
    /\ pc' = "group_ret"
    /\ UNCHANGED <<run, remote, cacheFile, cached_activities, new_activities,
                   activities, new_count, i, pending, requested, obtained,
                   nfail, out, branch, exitKind, prevExit, call, arg>>

SpecGroup == InitGroup /\ [][GroupCall]_vars

-----------------------------------------------------------------------------
(* format_pace (markdown_exporter.py of strava_exporter and of strava_import)
   and calculate_pace_seconds, applied to one distance and moving time *)

\* What a function call leaves when a division by zero is attempted.
ZeroDivisionError == <<"ZeroDivisionError">>

\* str(n) of a natural number.
RECURSIVE Decimal(_)
Decimal(n) ==
    IF n < 10 THEN <<DigitChars[n + 1]>>
    ELSE Append(Decimal(n \div 10), DigitChars[(n % 10) + 1])

\* f"{n:02d}"
Decimal02(n) == IF n < 10 THEN <<"0">> \o Decimal(n) ELSE Decimal(n)

\* A faulty variant of the test below: no distance is taken as zero.
is_zero_never(meters) == FALSE

\* "if meters == 0:"
is_zero(meters) == meters = 0

\* The lines after the test: km = meters / 1000, pace_seconds = seconds / km,
\* minutes int(pace_seconds // 60) and seconds int(pace_seconds % 60) of the
\* pace (the whole seconds of seconds * 1000 / meters).
formatted_pace(meters, seconds) ==
    IF meters = 0 THEN ZeroDivisionError
    ELSE Decimal(((seconds * 1000) \div meters) \div 60) \o <<":">>
         \o Decimal02(((seconds * 1000) \div meters) % 60)
         \o <<" ", "/", "k", "m">>

\* strava_exporter/markdown_exporter.py format_pace
format_pace(meters, seconds) ==
    IF is_zero(meters) THEN <<"N", "/", "A">>
    ELSE formatted_pace(meters, seconds)

\* strava_import/markdown_exporter.py format_pace
import_format_pace(meters, seconds) ==
    IF is_zero(meters) THEN <<"N", "/", "A">>
    ELSE formatted_pace(meters, seconds)

InitPace ==
    /\ pc = "pace_call"
    /\ arg \in [meters : {0, 1, 400, 1000, 1609, 5000, 10000, 21097, 42195,
                          100000},
                seconds : {0, 1, 59, 60, 61, 300, 1800, 3600, 7200, 86400}]
    /\ ret = NoRet
    /\ call = NoCall
    /\ remote = <<>>
    /\ cacheFile = NoFile
    /\ cached_activities = <<>>
    /\ new_activities = <<>>
    /\ NotStarted

PaceCall ==
    /\ pc = "pace_call"
    /\ ret' = [format_pace |-> format_pace(arg.meters, arg.seconds),
               import_format_pace |-> import_format_pace(arg.meters, arg.seconds),
               calculate_pace_seconds |->
                   calculate_pace_seconds(arg.meters, arg.seconds)]
    /\ pc' = "pace_ret"
    /\ UNCHANGED <<run, remote, cacheFile, cached_activities, new_activities,
                   activities, new_count, i, pending, requested, obtained,
                   nfail, out, branch, exitKind, prevExit, call, arg>>

SpecPace == InitPace /\ [][PaceCall]_vars

-----------------------------------------------------------------------------
(* calculate_relative_effort (markdown_exporter.py), applied to one activity's
   moving time, heart rates and sport type *)

\* A heart rate argument that is None (the JSON null of an activity record, or
\* the parameter's default).
NoHr == -1

\* Python's truth value of a heart rate argument: None and 0 are false.
HrTruthy(hr) == hr # NoHr /\ hr # 0

\* What the call leaves: the returned score, or the TypeError of arithmetic
\* on None.
Returns(score) == [raised |-> FALSE, value |-> score]
TypeError == [raised |-> TRUE, value |-> 0]

\* A faulty variant of the test below: nothing is returned early.
effort_guard_never(average_heartrate, moving_time) == FALSE

\* "if not average_heartrate or average_heartrate == 0 or moving_time == 0:"
effort_guard(average_heartrate, moving_time) ==
    IF ~HrTruthy(average_heartrate) THEN TRUE
    ELSE IF average_heartrate = 0 THEN TRUE
    ELSE moving_time = 0

\* "estimated_max_hr = 185"
FallbackMaxHr == 185

\* The heart rate taken as the maximum; comparing with an average of None
\* raises, which the caller below turns into TypeError before dividing.
estimated_max_hr(average_heartrate, max_heartrate, user_max_hr) ==
    IF HrTruthy(user_max_hr) /\ user_max_hr > 0 THEN user_max_hr
    ELSE IF HrTruthy(max_heartrate) /\ max_heartrate > average_heartrate
         THEN max_heartrate
    ELSE FallbackMaxHr

\* activity_factors.get(sport_type, 1.0), in tenths.
activity_factor(sport_type) ==
    CASE sport_type = "Run" -> 12
      [] sport_type = "Ride" -> 10
      [] sport_type = "Walk" -> 8
      [] sport_type = "Workout" -> 11
      [] sport_type = "Yoga" -> 6
      [] OTHER -> 10

\* The whole part of the square root.
ISqrt(n) == CHOOSE r \in 0..1000 : r * r <= n /\ (r + 1) * (r + 1) > n

\* min(average_heartrate / estimated_max_hr, 1.0), in thousandths.
intensity(average_heartrate, max_hr) ==
    Min((average_heartrate * 1000) \div max_hr, 1000)

\* The score of the lines after the test, in fixed point: intensity and
\* intensity ** 1.5 in thousandths (truncated), the result
\* int(duration_minutes * intensity * exp_factor * factor * 2.5).
effort_score(moving_time, average_heartrate, max_hr, sport_type) ==
    LET it == intensity(average_heartrate, max_hr)
        pow == (it * ISqrt(it * 1000)) \div 1000
        base == (moving_time * it) \div 60
        grown == (base * (1000 + pow)) \div 1000
    IN  (grown * activity_factor(sport_type) * 25) \div 100000

calculate_relative_effort(moving_time, average_heartrate, max_heartrate, sport_type, user_max_hr) ==
    IF effort_guard(average_heartrate, moving_time) THEN Returns(0)
    ELSE IF average_heartrate = NoHr THEN TypeError
    ELSE Returns(effort_score(moving_time, average_heartrate,
                     estimated_max_hr(average_heartrate, max_heartrate,
                                      user_max_hr),
                     sport_type))

InitEffort ==
    /\ pc = "effort_call"
    /\ arg \in [moving_time : {0, 60, 1800, 7200},
                average_heartrate : {NoHr, 0, 120, 150, 190},
                max_heartrate : {NoHr, 0, 140, 180},
                sport_type : {"Run", "Ride", "Walk", "Workout", "Yoga",
                              "Hike", ""},
                user_max_hr : {NoHr, 0, 185}]
    /\ ret = NoRet
    /\ call = NoCall
    /\ remote = <<>>
    /\ cacheFile = NoFile
    /\ cached_activities = <<>>
    /\ new_activities = <<>>
    /\ NotStarted

EffortCall ==
    /\ pc = "effort_call"
    /\ ret' = calculate_relative_effort(arg.moving_time, arg.average_heartrate,
                  arg.max_heartrate, arg.sport_type, arg.user_max_hr)
    /\ pc' = "effort_ret"
    /\ UNCHANGED <<run, remote, cacheFile, cached_activities, new_activities,
                   activities, new_count, i, pending, requested, obtained,
                   nfail, out, branch, exitKind, prevExit, call, arg>>

SpecEffort == InitEffort /\ [][EffortCall]_vars

-----------------------------------------------------------------------------
(* update_env_tokens (main.py), the callback of refresh_access_token, applied
   to one .env file *)

MaxLines == 3

\* A line of the file, cut into the pieces the function tells apart: the text
\* before the first "=", the "=", the rest and the line end.
AssignLine(name, value) == <<name, "=", value, "\n">>

\* line.startswith(name + "=")
startswith(line, name) == Len(line) >= 2 /\ line[1] = name /\ line[2] = "="

\* The loop body: the line written for a line read.
rewritten(line, access_token, refresh_token) ==
    IF startswith(line, "STRAVA_ACCESS_TOKEN")
    THEN AssignLine("STRAVA_ACCESS_TOKEN", access_token)
    ELSE IF startswith(line, "STRAVA_REFRESH_TOKEN")
    THEN AssignLine("STRAVA_REFRESH_TOKEN", refresh_token)
    ELSE line

\* The file after update_env_tokens(access_token, refresh_token) when reading
\* and writing succeed; a missing file is left missing.
update_env_tokens(env, access_token, refresh_token) ==
    IF ~env.exists THEN env
    ELSE [exists |-> TRUE,
          lines |-> [k \in 1..Len(env.lines) |->
                        rewritten(env.lines[k], access_token, refresh_token)]]

\* Lines of a .env file: the application's identifier, the two tokens, a
\* comment, and a token assignment in the "export" form load_dotenv accepts.
EnvLines ==
    {AssignLine("STRAVA_CLIENT_ID", "id"),
     AssignLine("STRAVA_ACCESS_TOKEN", "old_access"),
     AssignLine("STRAVA_REFRESH_TOKEN", "old_refresh"),
     <<"# Strava", "\n">>,
     <<"export STRAVA_ACCESS_TOKEN", "=", "old_access", "\n">>}

InitEnv ==
    /\ pc = "env_call"
    /\ arg \in [env : {[exists |-> FALSE, lines |-> <<>>]} \cup
                      {[exists |-> TRUE, lines |-> ls] :
                          ls \in UNION {SeqsOfLen(EnvLines, n) : n \in 0..MaxLines}},
                access_token : {"new_access"},
                refresh_token : {"new_refresh"}]
    /\ ret = NoRet
    /\ call = NoCall
    /\ remote = <<>>
    /\ cacheFile = NoFile
    /\ cached_activities = <<>>
    /\ new_activities = <<>>
    /\ NotStarted

EnvCall ==
    /\ pc = "env_call"
    /\ ret' = update_env_tokens(arg.env, arg.access_token, arg.refresh_token)
    /\ pc' = "env_ret"
    /\ UNCHANGED <<run, remote, cacheFile, cached_activities, new_activities,
                   activities, new_count, i, pending, requested, obtained,
                   nfail, out, branch, exitKind, prevExit, call, arg>>

SpecEnv == InitEnv /\ [][EnvCall]_vars

-----------------------------------------------------------------------------
(* The detected maximum heart rate in the cache document: the value and date
   activities_to_markdown_by_year returns (markdown_exporter.py:665-773), the
   save in main() (main.py:319-327) and what save_cache writes
   (cache.py:45-72) *)

\* The start_date of the first activity of the list whose max_heartrate is hr.
first_date_with(acts, hr) ==
    acts[CHOOSE k \in 1..Len(acts) :
            /\ acts[k].max_heartrate = hr
            /\ \A j \in 1..(k - 1) : acts[j].max_heartrate # hr].start_date

\* detection_date as returned next to detected_max_hr: the loops at lines
\* 700-703, 711-715, 748-756 and the first entries at 719 and 764 all take the
\* first activity, in list order, that holds the detected value in the period
\* the value was taken from.
detection_date(acts, user_max_hr) ==
    LET recent_activities == SelectSeq(acts, LAMBDA a : a.recent)
        detected == detect_max_hr(acts, user_max_hr).detected_max_hr
    IN  IF detected = None THEN None
        ELSE IF max_hrs(recent_activities) # <<>>
        THEN first_date_with(recent_activities, detected)
        ELSE first_date_with(acts, detected)

\* save_cache, lines 45-64: the two heart-rate fields of the document are
\* computed from the activities alone; max(..., key=x[0]) is the first of the
\* highest.
saved_max_hr(acts) ==
    LET recent_activities == SelectSeq(acts, LAMBDA a : a.recent)
        recent_max_hrs ==
            SelectSeq(recent_activities,
                      LAMBDA a : a.max_heartrate > 0 /\ a.max_heartrate <= Implausible)
    IN  IF recent_max_hrs = <<>>
        THEN [detected_max_hr |-> None, detected_max_hr_date |-> None]
        ELSE [detected_max_hr |-> max(max_hrs(recent_max_hrs)),
              detected_max_hr_date |->
                  first_date_with(recent_max_hrs, max(max_hrs(recent_max_hrs)))]

\* main.py:319-327: the report is generated; when a value and a date come
\* back the cache is saved. cache["detected_max_hr"] and
\* cache["detected_max_hr_date"] are set on the dictionary load_cache
\* returned, which save_cache does not receive.
export_and_save(acts, user_max_hr) ==
    LET new_detected_hr == detect_max_hr(acts, user_max_hr).detected_max_hr
        new_detection_date == detection_date(acts, user_max_hr)
    IN  [new_detected_hr |-> new_detected_hr,
         new_detection_date |-> new_detection_date,
         saved |-> new_detected_hr # None /\ new_detection_date # None,
         document |-> IF new_detected_hr # None /\ new_detection_date # None
                      THEN saved_max_hr(acts)
                      ELSE [detected_max_hr |-> None,
                            detected_max_hr_date |-> None]]

\* A cache list, newest first: the recent period, then the older one; the
\* start_date of an activity is its day, counted from the oldest.
Started(acts) ==
    [k \in 1..Len(acts) |->
        [max_heartrate |-> acts[k].max_heartrate,
         recent |-> acts[k].recent,
         start_date |-> Len(acts) - k + 1]]

InitSaveHr ==
    /\ pc = "save_hr_call"
    /\ \E lr \in SUBSET LowValues, hr \in 0..MaxHigh, br \in BOOLEAN,
          lo \in SUBSET LowValues, ho \in 0..MaxHigh, user \in {None, ConfiguredMaxHr} :
          arg = [activities |-> Started(Period(lr, hr, br, TRUE)
                                        \o Period(lo, ho, FALSE, FALSE)),
                 user_max_hr |-> user]
    /\ ret = NoRet
    /\ call = NoCall
    /\ remote = <<>>
    /\ cacheFile = NoFile
    /\ cached_activities = <<>>
    /\ new_activities = <<>>
    /\ NotStarted

SaveHrCall ==
    /\ pc = "save_hr_call"
    /\ ret' = export_and_save(arg.activities, arg.user_max_hr)
    /\ pc' = "save_hr_ret"
    /\ UNCHANGED <<run, remote, cacheFile, cached_activities, new_activities,
                   activities, new_count, i, pending, requested, obtained,
                   nfail, out, branch, exitKind, prevExit, call, arg>>

SpecSaveHr == InitSaveHr /\ [][SaveHrCall]_vars

-----------------------------------------------------------------------------
(* An incremental update after more activities were created upstream than one
   page holds: one run of main() in which no request fails and the user does
   not interrupt *)

\* The cache holds the oldest activity, detailed; since then PerPage + 1
\* activities were created. The source lists the newest first.
InitMany ==
    /\ pc = "idle"
    /\ remote = [k \in 1..(PerPage + 2) |-> RemoteActivity(PerPage + 3 - k)]
    /\ cacheFile = save_cache(<<WithDetails(RemoteActivity(1))>>)
    /\ cached_activities = <<>>
    /\ new_activities = <<>>
    /\ NotStarted
    /\ Elsewhere

NextMany ==
    \/ StartRun
    \/ AnswerNo
    \/ FetchNew
    \/ IncDetailOk
    \/ IncLoopEnd
    \/ Report

SpecMany == InitMany /\ [][NextMany]_vars

-----------------------------------------------------------------------------
(* get_all_activities (strava_api.py of strava_exporter and, with the same
   loop, of strava_import), one loop iteration at a time *)

\* The locals of a call, with the pages requested and the sizes and entries
\* of the pages received so far; max_activities None is 0.
NewPaging(max_activities) ==
    [pc |-> "get_page", page |-> 1, per_page |-> PerPage,
     all_activities |-> <<>>, max_activities |-> max_activities,
     requests |-> <<>>, sizes |-> <<>>, received |-> <<>>]

\* The call's frame after get_activities(per_page, page) answered.
Received(activities_page) ==
    [call EXCEPT !.requests = Append(@, call.page),
                 !.sizes = Append(@, Len(activities_page)),
                 !.received = @ \o activities_page]

\* "if max_activities and len(all_activities) >= max_activities:"
Capped(all_activities, max_activities) ==
    max_activities # None /\ Len(all_activities) >= max_activities

\* A faulty variant of the test below: a short page does not end the loop.
is_last_page_never(activities_page, per_page) == FALSE

\* "if len(activities) < per_page:"
is_last_page(activities_page, per_page) == Len(activities_page) < per_page

\* "if not activities: break"
PageEmpty ==
    /\ pc = "pages"
    /\ call.pc = "get_page"
    /\ get_activities(call.per_page, call.page) = <<>>
    /\ call' = [Received(<<>>) EXCEPT !.pc = "returned"]
    /\ UNCHANGED <<pc, run, remote, cacheFile, cached_activities,
                   new_activities, activities, new_count, i, pending,
                   requested, obtained, nfail, out, branch, exitKind, prevExit,
                   arg, ret>>

\* The page is added and max_activities is reached: truncate and break.
PageCapped ==
    /\ pc = "pages"
    /\ call.pc = "get_page"
    /\ get_activities(call.per_page, call.page) # <<>>
    /\ Capped(call.all_activities \o get_activities(call.per_page, call.page),
              call.max_activities)
    /\ call' = [Received(get_activities(call.per_page, call.page)) EXCEPT
                   !.all_activities =
                       SubSeq(@ \o get_activities(call.per_page, call.page),
                              1, call.max_activities),
                   !.pc = "returned"]
    /\ UNCHANGED <<pc, run, remote, cacheFile, cached_activities,
                   new_activities, activities, new_count, i, pending,
                   requested, obtained, nfail, out, branch, exitKind, prevExit,
                   arg, ret>>

\* The page is added and is shorter than per_page: break.
PageShort ==
    /\ pc = "pages"
    /\ call.pc = "get_page"
    /\ get_activities(call.per_page, call.page) # <<>>
    /\ ~Capped(call.all_activities \o get_activities(call.per_page, call.page),
               call.max_activities)
    /\ is_last_page(get_activities(call.per_page, call.page), call.per_page)
    /\ call' = [Received(get_activities(call.per_page, call.page)) EXCEPT
                   !.all_activities =
                       @ \o get_activities(call.per_page, call.page),
                   !.pc = "returned"]
    /\ UNCHANGED <<pc, run, remote, cacheFile, cached_activities,
                   new_activities, activities, new_count, i, pending,
                   requested, obtained, nfail, out, branch, exitKind, prevExit,
                   arg, ret>>

\* The page is added and is full: "page += 1".
PageFull ==
    /\ pc = "pages"
    /\ call.pc = "get_page"
    /\ get_activities(call.per_page, call.page) # <<>>
    /\ ~Capped(call.all_activities \o get_activities(call.per_page, call.page),
               call.max_activities)
    /\ ~is_last_page(get_activities(call.per_page, call.page), call.per_page)
    /\ call' = [Received(get_activities(call.per_page, call.page)) EXCEPT
                   !.all_activities =
                       @ \o get_activities(call.per_page, call.page),
                   !.page = @ + 1]
    /\ UNCHANGED <<pc, run, remote, cacheFile, cached_activities,
                   new_activities, activities, new_count, i, pending,
                   requested, obtained, nfail, out, branch, exitKind, prevExit,
                   arg, ret>>

\* The source's listing of n activities, newest first.
Listing(n) == [k \in 1..n |-> RemoteActivity(n + 1 - k)]

\* Listings that end before, at and after a page boundary, and limits below,
\* at and above them.
InitPages ==
    /\ pc = "pages"
    /\ remote \in {Listing(n) :
                      n \in {0, 1, PerPage - 1, PerPage, PerPage + 1,
                             2 * PerPage - 1, 2 * PerPage, 2 * PerPage + 1,
                             3 * PerPage}}
    /\ call \in {NewPaging(m) :
                    m \in {None, 1, PerPage, PerPage + 50, 2 * PerPage,
                           5 * PerPage}}
    /\ arg = NoArg
    /\ ret = NoRet
    /\ cacheFile = NoFile
    /\ cached_activities = <<>>
    /\ new_activities = <<>>
    /\ NotStarted

NextPages ==
    \/ PageEmpty
    \/ PageCapped
    \/ PageShort
    \/ PageFull

\* The caller is not suspended for ever between two iterations.
SpecPagesFair == InitPages /\ [][NextPages]_vars /\ WF_vars(NextPages)

-----------------------------------------------------------------------------
(* Vocabulary of the merge claims *)

Range(s) == {s[k] : k \in 1..Len(s)}
IdsOf(s) == {s[k].id : k \in 1..Len(s)} \ {NoId}
Positions(s, id) == {k \in 1..Len(s) : s[k].id = id}
LastWith(s, id) == s[CHOOSE k \in Positions(s, id) : \A m \in Positions(s, id) : m <= k]
Dated(a) == a.start_date # NoDate
Returned == pc = "merge_ret"

\* Dated entries first, by instant descending; undated entries after them.
DescendingByInstant(s) ==
    \A j, k \in 1..Len(s) :
        (j < k /\ Dated(s[k])) =>
            /\ Dated(s[j])
            /\ Instant(s[j].start_date) >= Instant(s[k].start_date)

\* Every entry carries an identifier the merge keeps, and no two the same one.
WellKeyed(s) ==
    /\ \A k \in 1..Len(s) : Truthy(s[k].id)
    /\ \A j, k \in 1..Len(s) : j # k => s[j].id # s[k].id

\* C1: the result of merge_activities holds at most one entry per identifier,
\* also when an input repeats an identifier.
C1_OneEntryPerId ==
    Returned =>
        \A j, k \in 1..Len(activities) :
            j # k => activities[j].id # activities[k].id

C1_Witness ==
    /\ Returned
    /\ \E id \in IdsOf(new_activities) :
          /\ Cardinality(Positions(new_activities, id)) >= 2
          /\ Positions(cached_activities, id) # {}
          /\ Positions(activities, id) # {}

\* C2 (as claimed): an identifier that occurs in both inputs contributes
\* exactly one entry to the result, and that entry is the new collection's.
C2_NewVersionWins ==
    Returned =>
        \A id \in IdsOf(cached_activities) \cap IdsOf(new_activities) :
            /\ Cardinality(Positions(activities, id)) = 1
            /\ \A k \in Positions(activities, id) :
                  activities[k] = LastWith(new_activities, id)

\* C3 (as claimed): an entry of either input is represented in the result, by
\* its identifier, exactly when it carries an identifier, whatever its value.
C3_KeptIffHasId ==
    Returned =>
        \A a \in Range(cached_activities) \cup Range(new_activities) :
            (a.id # NoId) <=> (Positions(activities, a.id) # {})

\* C5: the result of merge_activities is ordered by start instant, descending.
C5_SortedDescending == Returned => DescendingByInstant(activities)

C5_Witness ==
    /\ Returned
    /\ Len(activities) >= 2
    /\ Len(cached_activities) >= 1
    /\ Len(new_activities) >= 1
    /\ Dated(activities[2])
    /\ activities[1] = new_activities[1]
    /\ activities[2] = cached_activities[1]
    /\ Instant(activities[1].start_date) > Instant(activities[2].start_date)

\* C6 (as claimed): merging any cached collection with the empty collection
\* keeps exactly the entries of cached, ordered by instant descending.
C6_EmptyNewKeepsAll ==
    (Returned /\ new_activities = <<>>) =>
        /\ Range(activities) = Range(cached_activities)
        /\ DescendingByInstant(activities)

\* C6 (amended): merging a cached collection whose entries carry pairwise
\* distinct identifiers, none absent or 0, with the empty collection keeps
\* exactly the entries of cached, as many as before, ordered by instant
\* descending.
C6_EmptyNewKeepsWellKeyed ==
    (Returned /\ new_activities = <<>> /\ WellKeyed(cached_activities)) =>
        /\ Range(activities) = Range(cached_activities)
        /\ Len(activities) = Len(cached_activities)
        /\ DescendingByInstant(activities)

C6_Witness ==
    /\ Returned
    /\ new_activities = <<>>
    /\ WellKeyed(cached_activities)
    /\ Len(cached_activities) >= 2
    /\ activities # cached_activities

\* C7 (as claimed): when no identifier of one input occurs in the other, the
\* merged size is the sum of the two sizes.
C7_DisjointSizesAdd ==
    (Returned /\ IdsOf(cached_activities) \cap IdsOf(new_activities) = {}) =>
        Len(activities) = Len(cached_activities) + Len(new_activities)

\* C7 (amended): when every entry of both inputs carries an identifier (none
\* absent or 0), no identifier repeats within an input and none of one input
\* occurs in the other, the merged size is the sum of the two sizes.
C7_DisjointWellKeyedSizesAdd ==
    (/\ Returned
     /\ WellKeyed(cached_activities)
     /\ WellKeyed(new_activities)
     /\ IdsOf(cached_activities) \cap IdsOf(new_activities) = {}) =>
        Len(activities) = Len(cached_activities) + Len(new_activities)

C7_Witness ==
    /\ Returned
    /\ WellKeyed(cached_activities)
    /\ WellKeyed(new_activities)
    /\ IdsOf(cached_activities) \cap IdsOf(new_activities) = {}
    /\ Len(cached_activities) >= 1
    /\ Len(new_activities) >= 1
    /\ Len(activities) = Len(cached_activities) + Len(new_activities)

-----------------------------------------------------------------------------
(* Vocabulary of the run claims *)

Requested(id) == \E k \in 1..Len(requested) : requested[k] = id

\* The record at position p of activities, details included, is in the file.
Persisted(p) ==
    /\ cacheFile.state = "ok"
    /\ \E q \in 1..Len(cacheFile.activities) : cacheFile.activities[q] = activities[p]

\* Positions detailed by this run whose details the file does not hold yet.
Unsaved == {p \in obtained : ~Persisted(p)}

\* C4: once the cache file is readable and non-empty, no step of any run
\* removes an identifier from it, whatever the user answers and the source
\* lists.
C4_CachedIdsNeverShrink ==
    [][(cacheFile.state = "ok" /\ cacheFile.activities # <<>>) =>
          /\ cacheFile'.state = "ok"
          /\ IdsOf(cacheFile.activities) \subseteq IdsOf(cacheFile'.activities)]_vars

C4_Witness ==
    /\ pc = "done"
    /\ run >= 2
    /\ branch = "incremental"
    /\ HasNew(new_count)
    /\ cacheFile = save_cache(activities)
    /\ \E id \in IdsOf(cached_activities) : id \notin IdsOf(remote)

\* C8: the count is merged size minus cached size, and an incremental update
\* whose count is zero or negative reports no new activity and requests no
\* details.
C8_NonPositiveCountIsNoNew ==
    branch = "incremental" =>
        /\ new_count = Len(activities) - Len(cached_activities)
        /\ new_count <= 0 =>
              /\ out = "none_new"
              /\ requested = <<>>
              /\ obtained = {}
              /\ pc \in {"report", "done"}

C8_Witness ==
    /\ branch = "incremental"
    /\ new_count < 0
    /\ pc = "done"

\* C9 (as claimed): a run that starts from the cache saved by an interrupted
\* detail loop, in which the user asks for the update and nothing fails,
\* requests details for every cached activity not marked _detailed and for
\* none that is marked.
C9_RerunDetailsOnlyUndetailed ==
    (/\ pc = "done"
     /\ prevExit = "interrupted"
     /\ exitKind = "normal"
     /\ branch = "incremental"
     /\ nfail = 0
     /\ WellKeyed(cached_activities)) =>
        \A k \in 1..Len(cached_activities) :
            cached_activities[k]._detailed <=> ~Requested(cached_activities[k].id)

\* C10 (as claimed): inside a detail loop at most N activities detailed by
\* this run are missing from the cache file, N = 10 in the incremental loop
\* and N = 50 in the bulk loop.
C10_UnsavedAtMostN ==
    /\ pc = "inc_loop" => Cardinality(Unsaved) <= IncrementalSaveEvery
    /\ pc = "bulk_loop" => Cardinality(Unsaved) <= BulkSaveEvery

\* The run was ended by the user's Ctrl+C.
UserInterrupted == {"interrupted", "uncaught"}

\* C11 (as claimed): a Ctrl+C at any point of a detail loop ends the run from
\* inside the loop with the cache file holding the activity set as it stands,
\* every detail obtained so far included, as a normal early exit (main()
\* returns), with no further detail request and without the reports.
C11_InterruptSavesThenExits ==
    [][(pc \in {"inc_loop", "bulk_loop"} /\ exitKind' \in UserInterrupted) =>
          /\ cacheFile' = save_cache(activities')
          /\ activities' = activities
          /\ obtained' = obtained
          /\ pc' = "done"
          /\ exitKind' = "interrupted"]_vars

\* The item the detail loop of this run stands before.
Item == IF pc = "inc_loop" THEN i + 1 ELSE pending[i + 1]

\* C12 (as claimed): a failed detail request in either loop is followed by a
\* save of the cache; the loop goes on with the next item, the failed item
\* keeps its fields and stays without _detailed, and no item of the loop is
\* requested twice in a run.
C12_FailureCheckpointsAndContinues ==
    /\ [][nfail' = nfail + 1 =>
            /\ cacheFile' = save_cache(activities)
            /\ activities' = activities
            /\ ~activities'[Item]._detailed
            /\ pc' = pc
            /\ i' = i + 1
            /\ Len(requested') = Len(requested) + 1]_vars
    /\ [](pc \in {"inc_loop", "bulk_loop"} => Len(requested) <= i)

\* Every response of the call so far was a 429.
OnlyRateLimited == \A k \in 1..Len(call.log) : call.log[k] = RateLimited

\* C13: a call that receives nothing but 429 sends at most max_retries = 5
\* requests, sleeps after each of the first four and after no other, ends
\* with the error when the fifth is a 429; and every call ends, with a
\* response or with an error.
C13_BoundedRetryThenError ==
    /\ [](OnlyRateLimited =>
            /\ call.sent <= max_retries
            /\ call.waits <= max_retries - 1
            /\ call.waits = call.attempt
            /\ call.pc = "send" => call.waits = call.sent
            /\ (call.pc = "done" /\ call.sent = max_retries) =>
                  (call.result = "error" /\ call.waits = max_retries - 1)
            /\ (call.sent = max_retries /\ call.waits = max_retries - 1) =>
                  call.pc # "send")
    /\ [](call.pc = "done" => call.result \in {"response", "error"})
    /\ <>(call.pc = "done")

C13_Witness ==
    /\ call.pc = "done"
    /\ OnlyRateLimited
    /\ call.sent = max_retries
    /\ call.waits = max_retries - 1
    /\ call.result = "error"

\* C14 (as claimed): a 401 answered to a call that holds a refresh token is
\* followed by one refresh and one resend, and no call refreshes more than
\* once, whatever 401 and 429 responses it receives.
C14_RefreshAtMostOncePerCall ==
    /\ call.refreshes <= 1
    /\ (call.pc = "limit" /\ call.has_refresh /\ call.refreshes = 1) =>
          /\ Len(call.log) >= 2
          /\ call.log[Len(call.log) - 1] = Unauthorized

-----------------------------------------------------------------------------
(* Vocabulary of the record claims *)

RecordsReturned == pc = "records_ret"

\* The four pace-gated records of the claims.
PaceGated == {"max_distance", "max_time", "max_elevation", "best_pace"}

\* Position k holds record m of its sport type in the returned records.
Holds(k, m) == ret[arg[k].sport_type][m].activity = k

\* The pace ceilings the claims state, in s/km.
Ceiling(sport_type) ==
    IF sport_type = "Ride" THEN 900
    ELSE IF sport_type \in {"Run", "Walk"} THEN 1200
    ELSE 1800

\* Pace above the ceiling, for an activity with distance and moving time.
TooSlow(a) ==
    /\ a.distance > 0
    /\ a.moving_time > 0
    /\ a.moving_time * 1000 > Ceiling(a.sport_type) * a.distance

\* The implausible pace the specification names: 20000 m covered in 60 s.
NamedImplausible(a) == a.distance = 20000 /\ a.moving_time = 60

\* C15 (as claimed): an activity with an implausible pace, the 20000 m in
\* 60 s of the specification included, holds none of the four pace-gated
\* records of its sport type.
C15_ImplausibleHoldsNoRecord ==
    RecordsReturned =>
        \A k \in 1..Len(arg) :
            (TooSlow(arg[k]) \/ NamedImplausible(arg[k])) =>
                \A m \in PaceGated : ~Holds(k, m)

\* C16: an activity with positive distance and moving time whose pace is above
\* its sport's ceiling (900 Ride, 1200 Run and Walk, 1800 otherwise) holds none
\* of the four pace-gated records, whatever the other activities and the order.
C16_AboveCeilingHoldsNoRecord ==
    RecordsReturned =>
        \A k \in 1..Len(arg) :
            TooSlow(arg[k]) => \A m \in PaceGated : ~Holds(k, m)

\* An activity above its ceiling that exceeds the holder of every maximum of
\* its type, scanned first and scanned last.
C16_Witness ==
    /\ RecordsReturned
    /\ Len(arg) = 3
    /\ TooSlow(arg[1])
    /\ TooSlow(arg[3])
    /\ arg[2].sport_type = arg[1].sport_type
    /\ arg[3].sport_type = arg[1].sport_type
    /\ \A m \in PaceGated : ret[arg[2].sport_type][m].activity = 2
    /\ arg[1].moving_time > arg[2].moving_time
    /\ arg[3].total_elevation_gain > arg[2].total_elevation_gain

\* The positions of sport type t whose pace is plausible and that cover some
\* distance.
Plausible(t) ==
    {k \in 1..Len(arg) :
        /\ arg[k].sport_type = t
        /\ arg[k].distance > 0
        /\ ~TooSlow(arg[k])
        /\ ~NamedImplausible(arg[k])}

\* C17 (as claimed): for each sport type with a plausible activity, the
\* max-distance record is held by a plausible activity of that type whose
\* distance is the largest among them, in whatever order the activities come.
C17_MaxDistanceIsLargestPlausible ==
    RecordsReturned =>
        \A t \in DOMAIN ret :
            Plausible(t) # {} =>
                /\ ret[t].max_distance.activity \in Plausible(t)
                /\ \A k \in Plausible(t) :
                      arg[k].distance <= arg[ret[t].max_distance.activity].distance

\* The minimum times the claims state for the target distances, in s.
Threshold(target) ==
    IF target = 1000 THEN 120
    ELSE IF target = 3000 THEN 420
    ELSE IF target = 5000 THEN 720
    ELSE IF target = 10000 THEN 1500
    ELSE 3000

\* C18: a best-time record over a target distance is held only by an activity
\* of that sport type at least as long as the target whose extrapolated time
\* target / distance * moving_time is at or above the target's threshold, and
\* the record's value is that extrapolated time.
C18_BestTimeHolderQualifies ==
    RecordsReturned =>
        \A t \in DOMAIN ret : \A d \in DOMAIN ret[t].best_time :
            LET k == ret[t].best_time[d].activity
                v == ret[t].best_time[d].value
            IN  k # None =>
                    /\ arg[k].sport_type = t
                    /\ arg[k].distance >= d
                    /\ d * arg[k].moving_time >= Threshold(d) * arg[k].distance
                    /\ v.den > 0
                    /\ v.per = d
                    /\ v.num * arg[k].distance = arg[k].moving_time * v.den

\* A walk exactly at the 3 km threshold holds the 3 km record, and a ride
\* that is long enough but too fast for every threshold holds none.
C18_Witness ==
    /\ RecordsReturned
    /\ Len(arg) = 2
    /\ arg[1] = Input("Walk", 3000, 420, 0)
    /\ ret["Walk"].best_time[3000].activity = 1
    /\ arg[2] = Input("Ride", 20000, 60, 0)
    /\ \A d \in DOMAIN ret["Ride"].best_time : ret["Ride"].best_time[d].activity = None

-----------------------------------------------------------------------------
(* Vocabulary of the heart-rate claims *)

DetectReturned == pc = "detect_ret"

NoUserCeiling == arg.user_max_hr = None

\* The max-heart-rate observations of the recent activities, and of all.
RecentObservations == max_hrs(SelectSeq(arg.activities, LAMBDA a : a.recent))
AllObservations == max_hrs(arg.activities)

\* The same activities, every one taken as recent.
AsRecent(acts) == [k \in 1..Len(acts) |-> [acts[k] EXCEPT !.recent = TRUE]]

\* C19 (as claimed): with no user ceiling and a highest recent observation
\* above 200 bpm, the ceiling used is never that highest observation,
\* whatever the recent observations are.
C19_CeilingIsNotTheOutlier ==
    (/\ DetectReturned
     /\ NoUserCeiling
     /\ RecentObservations # <<>>
     /\ max(RecentObservations) > 200) =>
        ret.user_max_hr # max(RecentObservations)

\* C20 (as claimed): with no user ceiling, the detection is that of the
\* recent activities alone when one of them has heart-rate data; otherwise it
\* is what the same policy gives for the observations of the full history;
\* and it is 180 bpm when no activity has heart-rate data.
C20_RecentElseHistorySamePolicy ==
    (DetectReturned /\ NoUserCeiling) =>
        /\ RecentObservations # <<>> =>
              ret = detect_max_hr(SelectSeq(arg.activities, LAMBDA a : a.recent), None)
        /\ (RecentObservations = <<>> /\ AllObservations # <<>>) =>
              ret = detect_max_hr(AsRecent(arg.activities), None)
        /\ AllObservations = <<>> => ret.user_max_hr = 180

-----------------------------------------------------------------------------
(* Vocabulary of the year-grouping claim *)

GroupReturned == pc = "group_ret"

\* The year groups that hold position k, counted with repetitions.
GroupsHolding(k) ==
    {g \in (DOMAIN ret) \X (1..Len(arg)) :
        g[2] <= Len(ret[g[1]]) /\ ret[g[1]][g[2]] = k}

\* The calendar year a start date is written with.
WrittenYear(date_str) == CHOOSE y \in 2000..2030 : Str4(y) = SubSeq(date_str, 1, 4)

\* C21: an activity with a start timestamp is in exactly one year group, once,
\* that of the calendar year of the timestamp, and an activity without one
\* (missing or empty) is in no group.
C21_GroupedByCalendarYear ==
    GroupReturned =>
        \A k \in 1..Len(arg) :
            IF arg[k].start_date # <<>>
            THEN /\ Cardinality(GroupsHolding(k)) = 1
                 /\ \A g \in GroupsHolding(k) : g[1] = WrittenYear(arg[k].start_date)
            ELSE GroupsHolding(k) = {}

\* 2023-06-01T10:00:00Z is grouped under 2023, next to an activity without a
\* date and one of the first second of 2024.
C21_Witness ==
    /\ GroupReturned
    /\ Len(arg) = 3
    /\ arg[1].start_date = Str4(2023) \o MidYear
    /\ arg[2].start_date = <<>>
    /\ arg[3].start_date = Str4(2024) \o YearStart
    /\ ret[2023] = <<1>>
    /\ ret[2024] = <<3>>
    /\ DOMAIN ret = {2023, 2024}

-----------------------------------------------------------------------------
(* The pace claim *)

PaceReturned == pc = "pace_ret"

\* C22: for distance 0 and any moving time both format_pace functions return
\* "N/A" and calculate_pace_seconds returns the infinite pace; none attempts a
\* division by zero.
C22_ZeroDistanceIsNotApplicable ==
    (PaceReturned /\ arg.meters = 0) =>
        /\ ret.format_pace = <<"N", "/", "A">>
        /\ ret.import_format_pace = <<"N", "/", "A">>
        /\ ret.calculate_pace_seconds = Inf

C22_Witness ==
    /\ PaceReturned
    /\ arg.meters = 0
    /\ arg.seconds = 3600
    /\ ret.format_pace = <<"N", "/", "A">>

-----------------------------------------------------------------------------
(* The relative effort claim *)

EffortReturned == pc = "effort_ret"

\* The average heart rate is 0 or absent, or the moving time is 0.
NothingToScore ==
    \/ arg.average_heartrate = 0
    \/ arg.average_heartrate = NoHr
    \/ arg.moving_time = 0

\* C23: calculate_relative_effort returns 0 whenever the average heart rate
\* is 0 or absent or the moving time is 0, whatever the activity's maximum
\* heart rate, the sport type and the configured maximum are.
C23_NothingToScoreIsZero ==
    (EffortReturned /\ NothingToScore) => ret = [raised |-> FALSE, value |-> 0]

C23_Witness ==
    /\ EffortReturned
    /\ arg.average_heartrate = NoHr
    /\ arg.moving_time = 1800
    /\ arg.max_heartrate = 180
    /\ arg.sport_type = "Run"
    /\ ret = [raised |-> FALSE, value |-> 0]

-----------------------------------------------------------------------------
(* The cache loading claim *)

\* A run starts while the cache file is missing or cannot be read or parsed.
StartsWithoutUsableCache ==
    /\ pc = "idle"
    /\ run' = run + 1
    /\ cacheFile.state \in {"missing", "corrupt"}

\* C24: load_cache never raises; for a cache file that is missing, unreadable
\* or not parseable it returns the empty default document, and the run goes on
\* as a first run (a full download) instead of ending in an error.
C24_UnusableCacheIsFirstRun ==
    [][StartsWithoutUsableCache =>
          /\ load_cache(cacheFile) =
                 [raised |-> FALSE, last_update |-> "None", activities |-> <<>>]
          /\ cached_activities' = <<>>
          /\ pc' = "fetch_all"
          /\ exitKind' = "running"]_vars

C24_Witness ==
    /\ cacheFile.state = "corrupt"
    /\ run = 1
    /\ pc = "fetch_all"
    /\ exitKind = "running"

-----------------------------------------------------------------------------
(* The configuration file claim *)

EnvReturned == pc = "env_ret"

\* The file assigns value to name.
Assigns(env, name, value) ==
    \E k \in 1..Len(env.lines) : env.lines[k] = <<name, "=", value, "\n">>

\* Line k of the file assigns one of the two tokens.
TokenLine(env, k) ==
    /\ Len(env.lines[k]) >= 2
    /\ env.lines[k][1] \in {"STRAVA_ACCESS_TOKEN", "STRAVA_REFRESH_TOKEN"}
    /\ env.lines[k][2] = "="

\* Every line but the token lines is where it was and as it was.
OtherLinesKept ==
    /\ Len(ret.lines) = Len(arg.env.lines)
    /\ \A k \in 1..Len(arg.env.lines) :
          ~TokenLine(arg.env, k) => ret.lines[k] = arg.env.lines[k]

\* C25: after update_env_tokens the configuration file holds the new access
\* and refresh values under their two names, and every other line is kept
\* verbatim and in its position.
C25_TokensRewrittenOthersKept ==
    (EnvReturned /\ arg.env.exists) =>
        /\ Assigns(ret, "STRAVA_ACCESS_TOKEN", arg.access_token)
        /\ Assigns(ret, "STRAVA_REFRESH_TOKEN", arg.refresh_token)
        /\ OtherLinesKept

-----------------------------------------------------------------------------
(* The incremental detail claim *)

\* An incremental update found new activities and its detail loop has ended.
IncrementalDetailed ==
    /\ pc = "report"
    /\ branch = "incremental"
    /\ new_count > 0

\* The identifiers that were not in the cache before the update.
NetNew == IdsOf(activities) \ IdsOf(cached_activities)

\* C26: an incremental update that finds k > 0 new activities requests detail
\* records for exactly the k activities that were not cached before, and for
\* none that was, whatever their start timestamps are.
C26_DetailsForExactlyTheNew ==
    IncrementalDetailed => Range(requested) = NetNew

-----------------------------------------------------------------------------
(* The persisted heart rate claim *)

\* Report generation detected a maximum heart rate with its date and the
\* cache was saved.
DetectionSaved == pc = "save_hr_ret" /\ ret.saved

\* C27: when report generation detects a maximum heart rate and its date, the
\* cache document saved right afterwards holds exactly that value and that
\* date as its detected maximum heart rate and source date.
C27_SavedDocumentHoldsDetection ==
    DetectionSaved =>
        /\ ret.document.detected_max_hr = ret.new_detected_hr
        /\ ret.document.detected_max_hr_date = ret.new_detection_date

-----------------------------------------------------------------------------
(* The kept details claim *)

\* The cached record of identifier id carries the detail-fetched flag.
CachedDetailed(id) ==
    \E k \in 1..Len(cached_activities) :
        cached_activities[k].id = id /\ cached_activities[k]._detailed

\* Identifier id is, with its flag and detail fields as cached, in list s.
KeptDetailed(s, id) ==
    \E k \in 1..Len(s) :
        /\ s[k].id = id
        /\ s[k]._detailed
        /\ \E m \in 1..Len(cached_activities) :
              /\ cached_activities[m].id = id
              /\ s[k].suffer_score = cached_activities[m].suffer_score

\* An incremental update has come to the report with its cache written.
IncrementalUpdated ==
    /\ pc = "report"
    /\ branch = "incremental"

\* C28: an activity marked detail-fetched in the cache keeps the flag and its
\* detail fields in the activity set and in the cache an incremental update
\* produces, also when the remote source lists that activity again.
C28_DetailsSurviveUpdate ==
    IncrementalUpdated =>
        \A id \in 1..MaxId :
            CachedDetailed(id) =>
                /\ KeptDetailed(activities, id)
                /\ cacheFile.state = "ok" => KeptDetailed(cacheFile.activities, id)

-----------------------------------------------------------------------------
(* The complete update claim *)

\* C29: after an incremental update the activity set used for the reports
\* contains every activity the remote source holds, however many were created
\* upstream since the last update.
C29_UpdateHoldsEveryRemoteActivity ==
    (pc = "report" /\ branch = "incremental") =>
        IdsOf(remote) \subseteq IdsOf(activities)

-----------------------------------------------------------------------------
(* The paging claim *)

PagesReturned == pc = "pages" /\ call.pc = "returned"

\* Pages 1, 2, 3, ... were requested in this order, every page before the
\* last requested one was full, and after the return the last one was empty
\* or short and the result is the received pages, concatenated in order.
PagedInOrderToFirstShort ==
    /\ call.requests = [k \in 1..Len(call.requests) |-> k]
    /\ call.per_page = 200
    /\ \A k \in 1..(Len(call.sizes) - 1) : call.sizes[k] = 200
    /\ PagesReturned =>
          /\ call.sizes[Len(call.sizes)] < 200
          /\ call.all_activities = call.received

\* The call was made without max_activities, as main() makes it.
NoLimit == call.max_activities = None

\* C30 as stated: get_all_activities requests pages 1, 2, 3, ... in order
\* with page size 200, stops at the first empty or short page, returns the
\* concatenation of the pages it received, and terminates when the source
\* returns such a page.
C30_PagedToFirstShort ==
    /\ [](pc = "pages" => PagedInOrderToFirstShort)
    /\ <>PagesReturned

\* C30, for calls without max_activities: the same.
C30_UnlimitedPagedToFirstShort ==
    /\ [](pc = "pages" /\ NoLimit => PagedInOrderToFirstShort)
    /\ <>PagesReturned

C30_Witness ==
    /\ PagesReturned
    /\ NoLimit
    /\ call.requests = <<1, 2, 3>>
    /\ call.sizes = <<200, 200, 1>>
    /\ Len(call.all_activities) = 401

====
